---- MODULE Spec2Model ----
(***************************************************************************)
(* A model of skxray/fitting/xrf_model.py: the parameter-hint translation  *)
(* layer, the in-place ParameterTable operations, the ElementController,   *)
(* the fitted-area aggregator and the ModelSpectrum builder.               *)
(*                                                                         *)
(* Python objects are modelled with an explicit heap: a ParameterTable is  *)
(* a dict object (an index into dicts) that maps keys to references of     *)
(* entry objects (indices into heap), so that copy(), aliasing and         *)
(* in-place mutation are distinguishable.                                  *)
(*                                                                         *)
(* Floating-point numbers are modelled as exact rationals <<n, d>>.        *)
(***************************************************************************)
EXTENDS Integers, Sequences, FiniteSets, TLC

VARIABLES
    heap,       \* entry objects: a sequence, a reference is an index
    dicts,      \* dict objects: a sequence of functions key -> reference
    ctl,        \* the ElementController instances (at most one): <<>> or <<c>>
    ms,         \* the ModelSpectrum instances (at most one): <<>> or <<m>>
    hintModel,  \* param_hints of a stand-alone lmfit model: name -> kwargs
    call,       \* the last call made: its arguments, pre-state and outcome
    steps       \* number of calls made so far

vars == <<heap, dicts, ctl, ms, hintModel, call, steps>>

\* ------------------------------------------------------------------ bounds

MaxSteps == 3
MaxHintCalls == 2
MaxProfile == 2
MaxChannels == 3
MaxNames == 3

\* --------------------------------------------------------------- rationals

Q(n, d) == <<n, d>>
QInt(n) == <<n, 1>>
QMul(a, b) == <<a[1] * b[1], a[2] * b[2]>>
QAdd(a, b) == <<a[1] * b[2] + b[1] * a[2], a[2] * b[2]>>
QDiv(a, b) == <<a[1] * b[2], a[2] * b[1]>>
QEq(a, b) == a[1] * b[2] = b[1] * a[2]
QIsZero(a) == a[1] = 0
\* a < b, for positive denominators
QLt(a, b) == a[1] * b[2] < b[1] * a[2]

\* ------------------------------------------------------- module constants

k_line == {"Na", "Mg", "Al", "Si", "P", "S", "Cl", "Ar", "K", "Ca", "Sc", "Ti", "V", "Cr",
           "Mn", "Fe", "Co", "Ni", "Cu", "Zn", "Ga", "Ge", "As", "Se", "Br", "Kr", "Rb",
           "Sr", "Y", "Zr", "Nb", "Mo", "Tc", "Ru", "Rh", "Pd", "Ag", "Cd",
           "In", "Sn", "Sb", "Te", "I"}

l_line == {"Ga_L", "Ge_L", "As_L", "Se_L", "Br_L", "Kr_L", "Rb_L", "Sr_L", "Y_L", "Zr_L", "Nb_L",
           "Mo_L", "Tc_L", "Ru_L", "Rh_L", "Pd_L", "Ag_L", "Cd_L", "In_L", "Sn_L", "Sb_L", "Te_L",
           "I_L", "Xe_L", "Cs_L", "Ba_L", "La_L", "Ce_L", "Pr_L", "Nd_L", "Pm_L", "Sm_L", "Eu_L",
           "Gd_L", "Tb_L", "Dy_L", "Ho_L", "Er_L", "Tm_L", "Yb_L", "Lu_L", "Hf_L", "Ta_L", "W_L",
           "Re_L", "Os_L", "Ir_L", "Pt_L", "Au_L", "Hg_L", "Tl_L", "Pb_L", "Bi_L", "Po_L", "At_L",
           "Rn_L", "Fr_L", "Ac_L", "Th_L", "Pa_L", "U_L", "Np_L", "Pu_L", "Am_L"}

m_line == {"Hf_M", "Ta_M", "W_M", "Re_M", "Os_M", "Ir_M", "Pt_M", "Au_M", "Hg_M", "TL_M", "Pb_M", "Bi_M",
           "Sm_M", "Eu_M", "Gd_M", "Tb_M", "Dy_M", "Ho_M", "Er_M", "Tm_M", "Yb_M", "Lu_M", "Th_M", "Pa_M", "U_M"}

BoundTypes == {"none", "fixed", "lohi", "lo", "hi"}
BoundOptions == {"free_more", "adjust_element", "e_calibration", "linear"}

element_dict ==
    [pos   |-> [bound_type |-> "fixed", min |-> Q(-5, 1000), max |-> Q(5, 1000), value |-> QInt(0),
                free_more |-> "fixed", adjust_element |-> "lohi", e_calibration |-> "fixed", linear |-> "fixed"],
     width |-> [bound_type |-> "fixed", min |-> Q(-2, 100), max |-> Q(2, 100), value |-> QInt(0),
                free_more |-> "fixed", adjust_element |-> "lohi", e_calibration |-> "fixed", linear |-> "fixed"],
     area  |-> [bound_type |-> "none", min |-> QInt(0), max |-> QInt(1000000000), value |-> QInt(1000),
                free_more |-> "none", adjust_element |-> "fixed", e_calibration |-> "fixed", linear |-> "none"],
     ratio |-> [bound_type |-> "fixed", min |-> Q(1, 10), max |-> QInt(5), value |-> QInt(1),
                free_more |-> "fixed", adjust_element |-> "lohi", e_calibration |-> "fixed", linear |-> "fixed"]]

\* ------------------------------------------------------------ heap helpers

\* The contents of dict object d: key -> the entry object it refers to.
View(h, ds, d) == [k \in DOMAIN ds[d] |-> h[ds[d][k]]]

HasKey(t, k) == k \in DOMAIN t

\* dict.update({k: r}) on a key -> reference map.
DictPut(t, k, r) == [x \in (DOMAIN t) \cup {k} |-> IF x = k THEN r ELSE t[x]]

\* ---------------------------------------------------------- string helpers

StartsWith(s, p) == Len(s) >= Len(p) /\ SubSeq(s, 1, Len(p)) = p

\* Python's `sub in s` for strings.
Contains(s, sub) ==
    \E i \in 1..(Len(s) - Len(sub) + 1) : SubSeq(s, i, i + Len(sub) - 1) = sub

\* Python's s[0:-n].
DropLast(s, n) == IF Len(s) > n THEN SubSeq(s, 1, Len(s) - n) ELSE ""

\* First index at which sep occurs in s, or 0.
FindSep(s, sep) ==
    LET hits == {i \in 1..(Len(s) - Len(sep) + 1) : SubSeq(s, i, i + Len(sep) - 1) = sep}
    IN  IF hits = {} THEN 0 ELSE CHOOSE i \in hits : \A j \in hits : i <= j

\* Python's s.split(sep) for a non-empty separator.
RECURSIVE Split(_, _)
Split(s, sep) ==
    LET i == FindSep(s, sep)
    IN  IF i = 0 THEN <<s>>
        ELSE <<SubSeq(s, 1, i - 1)>> \o Split(SubSeq(s, i + Len(sep), Len(s)), sep)

InSeq(x, sq) == \E i \in 1..Len(sq) : sq[i] = x

\* ------------------------------------------- lmfit parameter hints (boundary)

\* A model object is [prefix, hints]; hints maps a parameter name to the
\* keyword arguments given for it so far.
NewModel(prefix) == [prefix |-> prefix, hints |-> <<>>]

\* The name a hint is stored under: the model's prefix is stripped.
HintName(model, name) ==
    IF Len(model.prefix) > 0 /\ StartsWith(name, model.prefix)
    THEN SubSeq(name, Len(model.prefix) + 1, Len(name))
    ELSE name

MergeKw(old, kw) ==
    [x \in (DOMAIN old) \cup (DOMAIN kw) |-> IF x \in DOMAIN kw THEN kw[x] ELSE old[x]]

HintOf(model, name) ==
    IF HintName(model, name) \in DOMAIN model.hints
    THEN model.hints[HintName(model, name)] ELSE <<>>

\* input_model.set_param_hint(name, **kw)
set_param_hint(model, name, kw) ==
    LET n == HintName(model, name)
    IN  [model EXCEPT !.hints =
            [x \in (DOMAIN model.hints) \cup {n} |->
                IF x = n THEN MergeKw(HintOf(model, name), kw) ELSE model.hints[x]]]

\* ------------------------------------------- parameter-hint translation layer

\* The keyword arguments _set_parameter_hint passes for a recognised bound_type.
hint_kwargs_hi_as_max(input_dict) ==
    CASE input_dict.bound_type = "none"  -> [value |-> input_dict.value, vary |-> TRUE]
      [] input_dict.bound_type = "fixed" -> [value |-> input_dict.value, vary |-> FALSE]
      [] input_dict.bound_type = "lohi"  -> [value |-> input_dict.value, vary |-> TRUE,
                                             min |-> input_dict.min, max |-> input_dict.max]
      [] input_dict.bound_type = "lo"    -> [value |-> input_dict.value, vary |-> TRUE,
                                             min |-> input_dict.min]
      [] input_dict.bound_type = "hi"    -> [value |-> input_dict.value, vary |-> TRUE,
                                             max |-> input_dict.max]

hint_kwargs(input_dict) ==
    CASE input_dict.bound_type = "none"  -> [value |-> input_dict.value, vary |-> TRUE]
      [] input_dict.bound_type = "fixed" -> [value |-> input_dict.value, vary |-> FALSE]
      [] input_dict.bound_type = "lohi"  -> [value |-> input_dict.value, vary |-> TRUE,
                                             min |-> input_dict.min, max |-> input_dict.max]
      [] input_dict.bound_type = "lo"    -> [value |-> input_dict.value, vary |-> TRUE,
                                             min |-> input_dict.min]
      [] input_dict.bound_type = "hi"    -> [value |-> input_dict.value, vary |-> TRUE,
                                             min |-> input_dict.max]

\* _set_parameter_hint(para_name, input_dict, input_model): the else branch
\* raises ValueError before any hint is set.
set_parameter_hint(para_name, input_dict, input_model) ==
    IF input_dict.bound_type \in BoundTypes
    THEN [ok |-> TRUE, model |-> set_param_hint(input_model, para_name, hint_kwargs(input_dict))]
    ELSE [ok |-> FALSE, model |-> input_model]

\* ------------------------------------------------- in-place table operations

\* update_parameter_dict(xrf_parameter, fit_results): values is
\* fit_results.values, t the key -> reference map of xrf_parameter.
update_parameter_dict_into_max(h, t, values) ==
    [r \in DOMAIN h |->
        IF \E k \in DOMAIN t : t[k] = r /\ k \in DOMAIN values
        THEN LET k == CHOOSE k \in DOMAIN t : t[k] = r /\ k \in DOMAIN values
             IN  [x \in (DOMAIN h[r]) \cup {"max"} |->
                     IF x = "max" THEN values[k] ELSE h[r][x]]
        ELSE h[r]]

update_parameter_dict(h, t, values) ==
    [r \in DOMAIN h |->
        IF \E k \in DOMAIN t : t[k] = r /\ k \in DOMAIN values
        THEN LET k == CHOOSE k \in DOMAIN t : t[k] = r /\ k \in DOMAIN values
             IN  [x \in (DOMAIN h[r]) \cup {"value"} |->
                     IF x = "value" THEN values[k] ELSE h[r][x]]
        ELSE h[r]]

\* set_parameter_bound(xrf_parameter, bound_option)
set_parameter_bound_free_more(h, t, bound_option) ==
    [r \in DOMAIN h |->
        IF \E k \in DOMAIN t : t[k] = r /\ k # "non_fitting_values"
        THEN [h[r] EXCEPT !.bound_type = h[r].free_more]
        ELSE h[r]]

set_parameter_bound(h, t, bound_option) ==
    [r \in DOMAIN h |->
        IF \E k \in DOMAIN t : t[k] = r /\ k # "non_fitting_values"
        THEN [h[r] EXCEPT !.bound_type = h[r][bound_option]]
        ELSE h[r]]

\* ------------------------------------------------------- ElementController

\* get_L_line(prop_name, element)
l_list == <<"la1", "la2", "lb1", "lb2", "lb3", "lg1", "lg2", "ll">>

get_L_line(prop_name, element) ==
    [i \in 1..Len(l_list) |-> prop_name \o "-" \o element \o "-" \o l_list[i]]

\* xrf_parameter.copy(): a new dict object holding the same references.
dict_alias(ds, d) == [dicts |-> ds, id |-> d]

dict_copy(ds, d) == [dicts |-> Append(ds, ds[d]), id |-> Len(ds) + 1]

RECURSIVE area_names(_)
area_names(fit_name) ==
    IF fit_name = <<>> THEN <<>>
    ELSE (IF Contains(Head(fit_name), "area")
          THEN <<DropLast(Head(fit_name), 5)>> ELSE <<>>) \o area_names(Tail(fit_name))

\* ElementController.__init__(xrf_parameter, fit_name)
ElementController_init(ds, d, fit_name) ==
    LET c == dict_copy(ds, d)
    IN  [dicts |-> c.dicts,
         self  |-> [new_parameter |-> c.id, element_name |-> area_names(fit_name)]]

\* new = element_dict[prop].copy(); if option: new['adjust_element'] = option;
\* self.new_parameter.update({linename: new}), on the state st = [heap, dicts].
put_template_in_place(st, d, linename, prop, option) ==
    IF linename \in DOMAIN st.dicts[d]
    THEN [st EXCEPT !.heap[st.dicts[d][linename]].adjust_element = option]
    ELSE st

put_template(st, d, linename, prop, option) ==
    LET new == IF option # ""
               THEN [element_dict[prop] EXCEPT !.adjust_element = option]
               ELSE element_dict[prop]
        h   == Append(st.heap, new)
    IN  [heap |-> h, dicts |-> [st.dicts EXCEPT ![d] = DictPut(@, linename, Len(h))]]

RECURSIVE put_all(_, _, _, _, _)
put_all(st, d, names, prop, option) ==
    IF names = <<>> THEN st
    ELSE put_all(put_template(st, d, Head(names), prop, option), d, Tail(names), prop, option)

\* Every L-series name, with no test against self.element_name.
l_names_all(names, element_name, skip_la1) == names

\* The L-series names that pass `linev not in self.element_name: continue`
\* (and, for the ratio, `'la1' in linename: continue`).
RECURSIVE l_names_kept(_, _, _)
l_names_kept(names, element_name, skip_la1) ==
    IF names = <<>> THEN <<>>
    ELSE LET linename == Head(names)
             parts == Split(linename, "-")
             linev == parts[2] \o "_" \o parts[3]
             keep  == /\ ~(skip_la1 /\ Contains(linename, "la1"))
                      /\ InSeq(linev, element_name)
         IN  (IF keep THEN <<linename>> ELSE <<>>)
             \o l_names_kept(Tail(names), element_name, skip_la1)

\* ElementController.set_position(item, option)
set_position(st, self, item, option) ==
    IF item \in k_line
    THEN put_all(st, self.new_parameter,
                 <<item \o "_ka1_delta_center", item \o "_ka2_delta_center",
                   item \o "_kb1_delta_center">>, "pos", option)
    ELSE IF item \in l_line
    THEN put_all(st, self.new_parameter,
                 l_names_kept(get_L_line("pos", DropLast(item, 2)), self.element_name, FALSE),
                 "pos", option)
    ELSE st

\* ElementController.set_width(item, option)
set_width(st, self, item, option) ==
    IF item \in k_line
    THEN put_all(st, self.new_parameter,
                 <<item \o "_ka1_delta_sigma", item \o "_ka2_delta_sigma",
                   item \o "_kb1_delta_sigma">>, "width", option)
    ELSE IF item \in l_line
    THEN put_all(st, self.new_parameter,
                 l_names_kept(get_L_line("width", DropLast(item, 2)), self.element_name, FALSE),
                 "width", option)
    ELSE st

\* ElementController.set_area(item, option)
set_area(st, self, item, option) ==
    IF item \in k_line
    THEN put_all(st, self.new_parameter, <<item \o "_ka1_area">>, "area", option)
    ELSE IF item \in l_line
    THEN put_all(st, self.new_parameter,
                 l_names_kept(get_L_line("area", DropLast(item, 2)), self.element_name, FALSE),
                 "area", option)
    ELSE st

\* ElementController.set_ratio(item, option)
set_ratio(st, self, item, option) ==
    IF item \in k_line
    THEN put_all(st, self.new_parameter, <<item \o "_kb1_ratio_adjust">>, "ratio", option)
    ELSE IF item \in l_line
    THEN put_all(st, self.new_parameter,
                 l_names_kept(get_L_line("ratio", DropLast(item, 2)), self.element_name, TRUE),
                 "ratio", option)
    ELSE st

ValidProps == {"pos", "width", "area", "ratio"}

apply_prop(st, self, k, item, option) ==
    CASE k = "pos"   -> set_position(st, self, item, option)
      [] k = "width" -> set_width(st, self, item, option)
      [] k = "area"  -> set_area(st, self, item, option)
      [] k = "ratio" -> set_ratio(st, self, item, option)

RECURSIVE for_elements(_, _, _, _, _)
for_elements(st, self, k, element_list, option) ==
    IF element_list = <<>> THEN st
    ELSE for_elements(apply_prop(st, self, k, Head(element_list), option),
                      self, k, Tail(element_list), option)

\* ElementController.set_val(element_list, **kws); kws is the sequence of
\* (key, value) pairs in the order the dict iteration yields them.  The result
\* is [ok, st]: a key outside pos/width/area/ratio raises ValueError when the
\* iteration reaches it, after the earlier keys have been applied.
RECURSIVE set_val(_, _, _, _)
set_val(st, self, element_list, kws) ==
    IF kws = <<>> THEN [ok |-> TRUE, st |-> st]
    ELSE LET k == Head(kws)[1]
             v == Head(kws)[2]
         IN  IF k \notin ValidProps THEN [ok |-> FALSE, st |-> st]
             ELSE set_val(for_elements(st, self, k, element_list, v),
                          self, element_list, Tail(kws))

\* ---------------------------------------------------- fitted-area aggregator

\* get_value(result_val, element_name, line_name): the three lookups raise
\* KeyError when a key is missing.
has_line(values, element_name, line_name) ==
    /\ (element_name \o "_" \o line_name \o "_area") \in DOMAIN values
    /\ (element_name \o "_" \o line_name \o "_ratio") \in DOMAIN values
    /\ (element_name \o "_" \o line_name \o "_ratio_adjust") \in DOMAIN values

get_value(values, element_name, line_name) ==
    QMul(QMul(values[element_name \o "_" \o line_name \o "_area"],
              values[element_name \o "_" \o line_name \o "_ratio"]),
         values[element_name \o "_" \o line_name \o "_ratio_adjust"])

\* The K-series branch of get_sum_area: ka1 + ka2 + kb1, plus kb2 when the
\* key '<element>_kb2_area' is in the fit result.
k_sum_area_always_kb2(element_name, values) ==
    IF ~(has_line(values, element_name, "ka1") /\ has_line(values, element_name, "ka2")
         /\ has_line(values, element_name, "kb1") /\ has_line(values, element_name, "kb2"))
    THEN [out |-> "KeyError"]
    ELSE [out |-> "ok",
          val |-> QAdd(QAdd(QAdd(get_value(values, element_name, "ka1"),
                                 get_value(values, element_name, "ka2")),
                            get_value(values, element_name, "kb1")),
                       get_value(values, element_name, "kb2"))]

k_sum_area(element_name, values) ==
    IF ~(has_line(values, element_name, "ka1") /\ has_line(values, element_name, "ka2")
         /\ has_line(values, element_name, "kb1"))
    THEN [out |-> "KeyError"]
    ELSE LET sum == QAdd(QAdd(get_value(values, element_name, "ka1"),
                              get_value(values, element_name, "ka2")),
                         get_value(values, element_name, "kb1"))
         IN  IF (element_name \o "_kb2_area") \in DOMAIN values
             THEN IF has_line(values, element_name, "kb2")
                  THEN [out |-> "ok",
                        val |-> QAdd(sum, get_value(values, element_name, "kb2"))]
                  ELSE [out |-> "KeyError"]
             ELSE [out |-> "ok", val |-> sum]

\* get_sum_area(element_name, result_val), values = result_val.values.
\* Outside the K-series branch `sum` is a local that was never assigned, so
\* `return sum` raises UnboundLocalError.
get_sum_area_zero_default(element_name, values) ==
    IF element_name \in k_line
    THEN k_sum_area(element_name, values)
    ELSE [out |-> "ok", val |-> QInt(0)]

get_sum_area(element_name, values) ==
    IF element_name \in k_line
    THEN k_sum_area(element_name, values)
    ELSE [out |-> "UnboundLocalError"]

\* ------------------------------------------- physics reference data (boundary)

\* Element(sym).emission_line.all: the ordered line names.
emission_line_all ==
    <<"ka1", "ka2", "kb1", "kb2",
      "la1", "la2", "lb1", "lb2", "lb3", "lb4", "lb5", "lg1", "lg2", "lg3", "lg4", "ll", "ln",
      "ma1", "ma2", "mb", "mg">>

LineIndex(line) == CHOOSE i \in 1..Len(emission_line_all) : emission_line_all[i] = line

\* The nominal energy of a line (item[1] of emission_line.all), schematic.
line_energy(sym, line) == QInt(LineIndex(line))

\* Absorption edges in keV (rounded), per element symbol and shell; a shell
\* that is not tabulated is never excited.
edge_energy(sym, shell) ==
    CASE sym = "Fe" /\ shell = "k" -> 7
      [] sym = "Cu" /\ shell = "k" -> 9
      [] sym = "Na" /\ shell = "k" -> 1
      [] sym = "Ga" /\ shell = "k" -> 10
      [] sym = "Ga" /\ shell = "l" -> 1
      [] sym = "Pt" /\ shell = "l" -> 12
      [] sym = "Au" /\ shell = "l" -> 12
      [] sym = "Au" /\ shell = "m" -> 2
      [] sym = "Pt" /\ shell = "m" -> 2
      [] OTHER -> 1000

\* Lines an element does not emit at any energy (no electron in the shell).
absent_line(sym, line) ==
    \/ sym = "Na" /\ line \in {"kb1", "kb2"}
    \/ sym = "Fe" /\ line = "kb2"

\* Element(sym).cs(incident_energy)[line]: zero when the line is not excited.
cs(sym, incident_energy, line) ==
    IF absent_line(sym, line) \/ incident_energy[1] <= edge_energy(sym, SubSeq(line, 1, 1)) * incident_energy[2]
    THEN 0
    ELSE IF line \in {"ka1", "la1", "ma1"} THEN 4 ELSE 1 + (LineIndex(line) % 2)

\* get_para(): the default parameter table (boundary).
parameter_default ==
    [name \in {"coherent_sct_energy", "compton_amplitude", "compton_angle", "fwhm_offset",
               "fwhm_fanoprime", "e_offset", "e_linear", "e_quadratic", "compton_gamma",
               "compton_f_tail", "compton_f_step", "compton_fwhm_corr", "compton_hi_gamma",
               "compton_hi_f_tail", "coherent_sct_amplitude"} |->
        [bound_type |-> "none", min |-> QInt(0), max |-> QInt(100), value |-> QInt(1),
         free_more |-> "none", adjust_element |-> "fixed", e_calibration |-> "fixed",
         linear |-> "fixed"]]

\* ------------------------------------------------------------ ModelSpectrum

RECURSIVE lstrip(_)
lstrip(s) == IF Len(s) > 0 /\ SubSeq(s, 1, 1) = " " THEN lstrip(SubSeq(s, 2, Len(s))) ELSE s

RECURSIVE rstrip(_)
rstrip(s) ==
    IF Len(s) > 0 /\ SubSeq(s, Len(s), Len(s)) = " " THEN rstrip(SubSeq(s, 1, Len(s) - 1)) ELSE s

\* Python's s.strip() (blanks only).
strip(s) == rstrip(lstrip(s))

\* Python's s.split(): split on runs of blanks, no empty tokens.
RECURSIVE split_ws(_)
split_ws(s) ==
    LET t == lstrip(s)
    IN  IF t = "" THEN <<>>
        ELSE LET i == FindSep(t, " ")
             IN  IF i = 0 THEN <<t>>
                 ELSE <<SubSeq(t, 1, i - 1)>> \o split_ws(SubSeq(t, i + 1, Len(t)))

\* _config: the element_list string to the list of names.
parse_element_list(s) ==
    LET parts == IF Contains(s, ",") THEN Split(s, ", ") ELSE split_ws(s)
    IN  [i \in 1..Len(parts) |-> strip(parts[i])]

compton_list ==
    <<"coherent_sct_energy", "compton_amplitude", "compton_angle", "fwhm_offset",
      "fwhm_fanoprime", "e_offset", "e_linear", "e_quadratic", "compton_gamma",
      "compton_f_tail", "compton_f_step", "compton_fwhm_corr", "compton_hi_gamma",
      "compton_hi_f_tail">>

\* The loop of setComptonModel over compton_list; res = [ok, model].
RECURSIVE compton_hints(_, _, _)
compton_hints(res, names, parameter) ==
    IF names = <<>> \/ ~res.ok THEN res
    ELSE LET name == Head(names)
             spec == IF name \in DOMAIN parameter THEN parameter[name]
                     ELSE parameter_default[name]
         IN  compton_hints(set_parameter_hint(name, spec, res.model), Tail(names), parameter)

\* ModelSpectrum.setComptonModel
setComptonModel(parameter) ==
    compton_hints([ok |-> TRUE, model |-> NewModel("")], compton_list, parameter)

\* compton.make_params()[name].value
compton_param_value(compton, name) == compton.hints[name].value

\* set_param_hint(name, value=self.compton_param[name].value, vary=False), per name
RECURSIVE tie_without_expr(_, _, _)
tie_without_expr(model, names, compton) ==
    IF names = <<>> THEN model
    ELSE tie_without_expr(
            set_param_hint(model, Head(names),
                           [value |-> compton.hints[Head(names)].value, vary |-> FALSE]),
            Tail(names), compton)

\* set_param_hint(name, value=self.compton_param[name].value, expr=name), per name
RECURSIVE tie_to_compton(_, _, _)
tie_to_compton(model, names, compton) ==
    IF names = <<>> THEN model
    ELSE tie_to_compton(
            set_param_hint(model, Head(names),
                           [value |-> compton_param_value(compton, Head(names)),
                            expr |-> Head(names)]),
            Tail(names), compton)

global_names == <<"e_offset", "e_linear", "e_quadratic", "fwhm_offset", "fwhm_fanoprime">>

\* ModelSpectrum.setElasticModel; the result is [ok, model].
setElasticModel(parameter, compton) ==
    LET item == "coherent_sct_amplitude"
        spec == IF item \in DOMAIN parameter THEN parameter[item] ELSE parameter_default[item]
        r    == set_parameter_hint(item, spec, NewModel("elastic_"))
    IN  IF ~r.ok THEN r
        ELSE [ok |-> TRUE,
              model |-> tie_to_compton(r.model, global_names \o <<"coherent_sct_energy">>,
                                       compton)]

\* ElementModel(prefix=...): epsilon is fixed at 2.96.
ElementModel(prefix) ==
    set_param_hint(NewModel(prefix), "epsilon", [value |-> Q(296, 100), vary |-> FALSE])

\* A run of gauss_mod.set_param_hint(name, **kw) calls, hs = <<<<name, kw>>, ...>>.
RECURSIVE set_hints(_, _)
set_hints(model, hs) ==
    IF hs = <<>> THEN model
    ELSE set_hints(set_param_hint(model, Head(hs)[1], Head(hs)[2]), Tail(hs))

\* if parameter.has_key(key): _set_parameter_hint(hint_name, parameter[key], gauss_mod)
override(res, key, hint_name, parameter) ==
    IF ~res.ok THEN res
    ELSE IF key \in DOMAIN parameter
    THEN set_parameter_hint(hint_name, parameter[key], res.model)
    ELSE res

\* The area / delta_center / delta_sigma hints a K line starts with.
k_line_hints(ename, line_name) ==
    CASE line_name = "ka1" ->
            << <<"area", [value |-> QInt(100000), vary |-> TRUE, min |-> QInt(0)]>>,
               <<"delta_center", [value |-> QInt(0), vary |-> FALSE]>>,
               <<"delta_sigma", [value |-> QInt(0), vary |-> FALSE]>> >>
      [] line_name = "ka2" ->
            << <<"area", [value |-> QInt(100000), vary |-> TRUE,
                          expr |-> ename \o "_ka1_area"]>>,
               <<"delta_sigma", [value |-> QInt(0), vary |-> FALSE,
                                 expr |-> ename \o "_ka1_delta_sigma"]>>,
               <<"delta_center", [value |-> QInt(0), vary |-> FALSE,
                                  expr |-> ename \o "_ka1_delta_center"]>> >>
      [] OTHER ->
            << <<"area", [value |-> QInt(100000), vary |-> TRUE,
                          expr |-> ename \o "_ka1_area"]>>,
               <<"delta_center", [value |-> QInt(0), vary |-> FALSE]>>,
               <<"delta_sigma", [value |-> QInt(0), vary |-> FALSE]>> >>

\* The set_param_hint calls that follow an override: skipped when the
\* override raised.  res = [ok, model].
then_hints(res, hs) ==
    IF ~res.ok THEN res ELSE [ok |-> TRUE, model |-> set_hints(res.model, hs)]

\* One pass of the K-series loop body of setElementModel (the line is active).
k_line_model(ename, line_name, parameter, compton, incident_energy) ==
    LET pre == ename \o "_" \o line_name
        g0  == tie_to_compton(ElementModel(pre \o "_"), global_names, compton)
        g1  == set_hints(g0, k_line_hints(ename, line_name))
        r1  == override([ok |-> TRUE, model |-> g1], pre \o "_area", pre \o "_area", parameter)
        ratio_v == Q(cs(ename, incident_energy, line_name), cs(ename, incident_energy, "ka1"))
        r2  == then_hints(r1,
                 << <<"center", [value |-> line_energy(ename, line_name), vary |-> FALSE]>>,
                    <<"ratio", [value |-> ratio_v, vary |-> FALSE]>>,
                    <<"ratio_adjust", [value |-> QInt(1), vary |-> FALSE]>> >>)
        r3  == override(r2, pre \o "_delta_center", "delta_center", parameter)
        r4  == override(r3, pre \o "_delta_sigma", "delta_sigma", parameter)
    IN  override(r4, pre \o "_ratio_adjust", "ratio_adjust", parameter)

\* The area hint of an L or M line: free for the principal line, tied to it
\* for the others.
tied_area(ename, line_name, principal, value) ==
    IF line_name = principal
    THEN [value |-> value, vary |-> TRUE]
    ELSE [value |-> value, vary |-> TRUE, expr |-> ename \o "_" \o principal \o "_area"]

\* One pass of the L-series loop body (ename already stripped of '_L').
l_line_model(ename, line_name, parameter, compton, incident_energy) ==
    LET pre == ename \o "_" \o line_name
        g0  == tie_to_compton(ElementModel(pre \o "_"), global_names, compton)
        g2  == set_hints(g0,
                 << <<"area", tied_area(ename, line_name, "la1", QInt(100000))>>,
                    <<"center", [value |-> line_energy(ename, line_name), vary |-> FALSE]>>,
                    <<"sigma", [value |-> QInt(1), vary |-> FALSE]>>,
                    <<"ratio", [value |-> Q(cs(ename, incident_energy, line_name),
                                            cs(ename, incident_energy, "la1")),
                                vary |-> FALSE]>>,
                    <<"delta_center", [value |-> QInt(0), vary |-> FALSE]>>,
                    <<"delta_sigma", [value |-> QInt(0), vary |-> FALSE]>>,
                    <<"ratio_adjust", [value |-> QInt(1), vary |-> FALSE]>> >>)
        r3  == override([ok |-> TRUE, model |-> g2], pre \o "_delta_center", "delta_center", parameter)
        r4  == override(r3, pre \o "_delta_sigma", "delta_sigma", parameter)
    IN  override(r4, pre \o "_ratio_adjust", "ratio_adjust", parameter)

\* One pass of the M-series loop body (ename already stripped of '_M').
m_line_model(ename, line_name, parameter, compton, incident_energy) ==
    LET pre == ename \o "_" \o line_name
        g0  == tie_to_compton(ElementModel(pre \o "_"), global_names, compton)
    IN  [ok |-> TRUE,
         model |-> set_hints(g0,
                 << <<"area", tied_area(ename, line_name, "ma1", QInt(100))>>,
                    <<"center", [value |-> line_energy(ename, line_name), vary |-> FALSE]>>,
                    <<"sigma", [value |-> QInt(1), vary |-> FALSE]>>,
                    <<"ratio", [value |-> Q(1, 10), vary |-> FALSE]>>,
                    <<"delta_center", [value |-> QInt(0), vary |-> FALSE]>>,
                    <<"delta_sigma", [value |-> QInt(0), vary |-> FALSE]>>,
                    <<"ratio_adjust", [value |-> QInt(1), vary |-> FALSE]>> >>)]

line_model(series, ename, line_name, parameter, compton, incident_energy) ==
    CASE series = "k" -> k_line_model(ename, line_name, parameter, compton, incident_energy)
      [] series = "l" -> l_line_model(ename, line_name, parameter, compton, incident_energy)
      [] series = "m" -> m_line_model(ename, line_name, parameter, compton, incident_energy)

\* element_mod += gauss_mod: element_mod is the sequence of line models; r is
\* the [ok, model] of the line just built.
add_line(acc, r) ==
    [ok |-> r.ok, model |-> IF r.ok THEN Append(acc.model, r.model) ELSE acc.model]

\* The loop over the tabulated lines: inactive lines are skipped, the line
\* models are summed into element_mod; an error raised by _set_parameter_hint
\* ends the loop.  acc = [ok, model].
RECURSIVE line_loop(_, _, _, _, _, _, _)
line_loop(acc, series, ename, lines, parameter, compton, incident_energy) ==
    IF lines = <<>> \/ ~acc.ok THEN acc
    ELSE IF cs(ename, incident_energy, Head(lines)) = 0
    THEN line_loop(acc, series, ename, Tail(lines), parameter, compton, incident_energy)
    ELSE line_loop(add_line(acc, line_model(series, ename, Head(lines), parameter,
                                            compton, incident_energy)),
                   series, ename, Tail(lines), parameter, compton, incident_energy)

\* return element_mod, or the ValueError of _set_parameter_hint.
element_result(r) == [out |-> IF r.ok THEN "ok" ELSE "ValueError", model |-> r.model]

\* ModelSpectrum.setElementModel(ename): [out, model]; model = <<>> is None.
\* self carries incident_energy and the Compton model, parameter is the
\* content of self.parameter at the time of the call.
element_model(series, principal, sym, lines, self, parameter) ==
    IF cs(sym, self.incident_energy, principal) = 0
    THEN [out |-> "ok", model |-> <<>>]
    ELSE element_result(line_loop([ok |-> TRUE, model |-> <<>>], series, sym, lines,
                                  parameter, self.compton, self.incident_energy))

setElementModel(self, ename, parameter) ==
    IF ename \in k_line
    THEN element_model("k", "ka1", ename, SubSeq(emission_line_all, 1, 4), self, parameter)
    ELSE IF ename \in l_line
    THEN element_model("l", "la1", DropLast(ename, 2),
                       SubSeq(emission_line_all, 5, Len(emission_line_all) - 4), self, parameter)
    ELSE IF ename \in m_line
    THEN element_model("m", "ma1", DropLast(ename, 2),
                       SubSeq(emission_line_all, Len(emission_line_all) - 3,
                              Len(emission_line_all)), self, parameter)
    ELSE [out |-> "ok", model |-> <<>>]

\* The loop of model_spectrum: self.mod += self.setElementModel(ename), with
\* r the result of setElementModel for the first of names.  Adding None to a
\* model raises in the fitting framework.
RECURSIVE add_elements(_, _, _, _)
add_element(mod, self, names, parameter, r) ==
    IF r.out # "ok" THEN [out |-> r.out, mod |-> mod]
    ELSE IF r.model = <<>> THEN [out |-> "ModelAddError", mod |-> mod]
    ELSE add_elements(mod \o r.model, self, Tail(names), parameter)

add_elements(mod, self, names, parameter) ==
    IF names = <<>> THEN [out |-> "ok", mod |-> mod]
    ELSE add_element(mod, self, names, parameter,
                     setElementModel(self, Head(names), parameter))

\* ModelSpectrum.model_spectrum(): [out, mod]; self.element_list was never
\* assigned when 'element_list' was absent at construction.
model_spectrum(self, parameter) ==
    IF ~self.has_element_list
    THEN [out |-> "AttributeError", mod |-> <<self.compton, self.elastic>>]
    ELSE add_elements(<<self.compton, self.elastic>>, self, self.element_list, parameter)

\* A deep copy: new entry objects and a new dict object.
dict_deepcopy(h, ds, d) ==
    LET keys == DOMAIN ds[d]
        refs == {ds[d][k] : k \in keys}
        \* the i-th copied object, in increasing order of the original reference
        rank(r) == Cardinality({x \in refs : x <= r})
        orig(i) == CHOOSE r \in refs : rank(r) = i
        h2 == h \o [i \in 1..Cardinality(refs) |-> h[orig(i)]]
    IN  [heap |-> h2,
         dicts |-> Append(ds, [k \in keys |-> Len(h) + rank(ds[d][k])]),
         id |-> Len(ds) + 1]

\* self.parameter = xrf_parameter: the instance refers to the caller's dict.
ModelSpectrum_parameter(h, ds, d) == [heap |-> h, dicts |-> ds, id |-> d]

\* ModelSpectrum.__init__(xrf_parameter) with _config(): [out, heap, dicts, self].
ModelSpectrum_init(h, ds, d) ==
    LET p         == ModelSpectrum_parameter(h, ds, d)
        parameter == View(p.heap, p.dicts, p.id)
    IN  IF "non_fitting_values" \notin DOMAIN parameter
           \/ "coherent_sct_energy" \notin DOMAIN parameter
        THEN [out |-> "KeyError", heap |-> p.heap, dicts |-> p.dicts]
        ELSE LET non_fit == parameter["non_fitting_values"]
                 has     == "element_list" \in DOMAIN non_fit
                 c       == setComptonModel(parameter)
                 e       == IF c.ok THEN setElasticModel(parameter, c.model) ELSE c
             IN  IF ~c.ok \/ ~e.ok
                 THEN [out |-> "ValueError", heap |-> p.heap, dicts |-> p.dicts]
                 ELSE [out |-> "ok", heap |-> p.heap, dicts |-> p.dicts,
                       self |-> [parameter        |-> p.id,
                                 has_element_list |-> has,
                                 element_list     |-> IF has THEN parse_element_list(non_fit.element_list)
                                                      ELSE <<>>,
                                 incident_energy  |-> parameter["coherent_sct_energy"].value,
                                 compton          |-> c.model,
                                 elastic          |-> e.model,
                                 has_mod          |-> FALSE,
                                 mod              |-> <<>>]]

\* ------------------------------------------------------------ the inputs

\* element_list strings of non_fitting_values.
ElementLists == {"Fe, Cu", "Fe Na", "Ga_L, Pt_M"}

\* fit_name lists handed to ElementController.
FitNames == {<<"Fe_ka1_area", "e_offset", "Ga_la1_area", "Ga_lb1_area">>,
             <<"Fe_ka1_area", "compton_amplitude">>}

\* fit_results.values of earlier fits, handed to update_parameter_dict.
FitValues ==
    {[Fe_ka1_area |-> QInt(700), e_offset |-> Q(2, 100), Fe_ka1_ratio |-> QInt(1)],
     [coherent_sct_energy |-> QInt(12), Fe_ka2_area |-> QInt(5)]}

SetValElements == {<<"Fe">>, <<"Ga_L">>, <<"Fe", "Pt_M">>}

SetValKws ==
    {<<<<k, "lohi">>>> : k \in ValidProps \cup {"height"}}
    \cup {<< <<"area", "">> >>, << <<"pos", "fixed">>, <<"area", "lohi">> >>}

ElementNames == {"Fe", "Cu", "Na", "Ga_L", "Pt_M", "Xx"}

\* ------------------------------------------------------------ the caller's table

Entry(bt, v, lo, hi, fm, ae, ec, li) ==
    [bound_type |-> bt, value |-> v, min |-> lo, max |-> hi,
     free_more |-> fm, adjust_element |-> ae, e_calibration |-> ec, linear |-> li]

InitEntries ==
    <<Entry("fixed", QInt(8), QInt(7), QInt(13), "lohi", "fixed", "fixed", "fixed"),
      Entry("none", Q(1, 100), Q(-1, 10), Q(1, 10), "lohi", "fixed", "lo", "fixed"),
      Entry("none", QInt(50), QInt(0), QInt(1000), "none", "fixed", "fixed", "hi"),
      Entry("none", QInt(500), QInt(0), QInt(100000), "lo", "fixed", "fixed", "none")>>

InitKeys == <<"coherent_sct_energy", "e_offset", "compton_amplitude", "Fe_ka1_area">>

\* The table of the caller: dict object 1, with the non_fitting_values object
\* at reference 1 and the first n of InitEntries after it.
InitTable(n) ==
    [k \in {"non_fitting_values"} \cup {InitKeys[i] : i \in 1..n} |->
        IF k = "non_fitting_values" THEN 1
        ELSE 1 + (CHOOSE i \in 1..n : InitKeys[i] = k)]

NonFit(el) == [element_list |-> el, energy_bound_low |-> QInt(2), energy_bound_high |-> QInt(10)]

\* The tables the caller starts from: the non_fitting_values object and the
\* number of entries; one table has no element_list, one no 'Fe_ka1_area'.
InitChoices ==
    {<<[energy_bound_low |-> QInt(2), energy_bound_high |-> QInt(10)], 4>>,
     <<NonFit("Fe, Cu"), 3>>}
    \cup {<<NonFit(el), 4>> : el \in ElementLists}

xrf_parameter == 1

InitCommon ==
    /\ ctl = <<>>
    /\ ms = <<>>
    /\ call = [op |-> "none"]
    /\ steps = 0

Init ==
    /\ \E c \in InitChoices :
          /\ heap = <<c[1]>> \o SubSeq(InitEntries, 1, c[2])
          /\ dicts = <<InitTable(c[2])>>
    /\ hintModel = NewModel("")
    /\ InitCommon

\* ------------------------------------------------------------ the operations

Step == steps < MaxSteps /\ steps' = steps + 1

\* set_parameter_bound(table, option) on any table the caller holds.
SetParameterBound ==
    \E d \in DOMAIN dicts, option \in BoundOptions :
        /\ Step
        /\ heap' = set_parameter_bound(heap, dicts[d], option)
        /\ call' = [op |-> "set_parameter_bound", d |-> d, option |-> option,
                    pre |-> View(heap, dicts, d)]
        /\ ctl' = [i \in DOMAIN ctl |-> [ctl[i] EXCEPT !.set_val_only = FALSE]]
        /\ UNCHANGED <<dicts, ms, hintModel>>

\* update_parameter_dict(table, fit_results) on any table the caller holds.
UpdateParameterDict ==
    \E d \in DOMAIN dicts, values \in FitValues :
        /\ Step
        /\ heap' = update_parameter_dict(heap, dicts[d], values)
        /\ call' = [op |-> "update_parameter_dict", d |-> d, values |-> values,
                    pre |-> View(heap, dicts, d)]
        /\ ctl' = [i \in DOMAIN ctl |-> [ctl[i] EXCEPT !.set_val_only = FALSE]]
        /\ UNCHANGED <<dicts, ms, hintModel>>

\* ElementController(xrf_parameter, fit_name).  src, src_at_init and
\* set_val_only record the table it was built from, that table's content at
\* construction, and whether only set_val calls were made since.
NewElementController ==
    \E fit_name \in FitNames :
        /\ Step
        /\ ctl = <<>>
        /\ LET r == ElementController_init(dicts, xrf_parameter, fit_name)
           IN  /\ dicts' = r.dicts
               /\ ctl' = <<[new_parameter |-> r.self.new_parameter,
                            element_name  |-> r.self.element_name,
                            src           |-> xrf_parameter,
                            src_at_init   |-> View(heap, dicts, xrf_parameter),
                            set_val_only  |-> TRUE]>>
        /\ call' = [op |-> "ElementController", fit_name |-> fit_name]
        /\ UNCHANGED <<heap, ms, hintModel>>

\* controller.set_val(element_list, **kws)
SetVal ==
    \E element_list \in SetValElements, kws \in SetValKws :
        /\ Step
        /\ ctl # <<>>
        /\ LET r == set_val([heap |-> heap, dicts |-> dicts], ctl[1], element_list, kws)
           IN  /\ heap' = r.st.heap
               /\ dicts' = r.st.dicts
               /\ call' = [op |-> "set_val", element_list |-> element_list, kws |-> kws,
                           pre |-> View(heap, dicts, ctl[1].new_parameter),
                           out |-> IF r.ok THEN "ok" ELSE "ValueError"]
        /\ UNCHANGED <<ctl, ms, hintModel>>

\* ModelSpectrum(table).  src and src_at_init record the table it was built
\* from and that table's content at construction.
NewModelSpectrum ==
    \E d \in DOMAIN dicts :
        /\ Step
        /\ ms = <<>>
        /\ LET r == ModelSpectrum_init(heap, dicts, d)
           IN  /\ heap' = r.heap
               /\ dicts' = r.dicts
               /\ ms' = IF r.out = "ok"
                        THEN <<[self |-> r.self, src |-> d, src_at_init |-> View(heap, dicts, d)]>>
                        ELSE <<>>
               /\ call' = [op |-> "ModelSpectrum", d |-> d, out |-> r.out]
        /\ UNCHANGED <<ctl, hintModel>>

\* instance.setElementModel(ename)
SetElementModel ==
    \E ename \in ElementNames :
        /\ Step
        /\ ms # <<>>
        /\ LET self == ms[1].self
               r == setElementModel(self, ename, View(heap, dicts, self.parameter))
           IN  call' = [op |-> "setElementModel", ename |-> ename, out |-> r.out,
                        model |-> r.model]
        /\ UNCHANGED <<heap, dicts, ctl, ms, hintModel>>

\* instance.model_spectrum(): self.mod holds the sum built before an error.
ModelSpectrumCall ==
    /\ Step
    /\ ms # <<>>
    /\ LET self == ms[1].self
           r == model_spectrum(self, View(heap, dicts, self.parameter))
       IN  /\ ms' = <<[ms[1] EXCEPT !.self.has_mod = TRUE, !.self.mod = r.mod]>>
           /\ call' = [op |-> "model_spectrum", out |-> r.out]
    /\ UNCHANGED <<heap, dicts, ctl, hintModel>>

Next ==
    \/ SetParameterBound
    \/ UpdateParameterDict
    \/ NewElementController
    \/ SetVal
    \/ NewModelSpectrum
    \/ SetElementModel
    \/ ModelSpectrumCall

Spec == Init /\ [][Next]_vars

\* --------------------------------------- the hint translation on its own

HintNames == {"area", "Fe_ka1_area"}

HintSpecs ==
    {Entry(bt, v, QInt(0), QInt(5), "none", "fixed", "fixed", "none") :
        bt \in BoundTypes \cup {"bogus", ""}, v \in {Q(1, 2), QInt(3)}}

InitHint ==
    /\ heap = <<>>
    /\ dicts = <<>>
    /\ hintModel \in {NewModel(""), NewModel("Fe_ka1_")}
    /\ InitCommon

\* _set_parameter_hint(para_name, input_dict, input_model) on one model.
SetParameterHint ==
    \E para_name \in HintNames, input_dict \in HintSpecs :
        /\ steps < MaxHintCalls
        /\ steps' = steps + 1
        /\ LET r == set_parameter_hint(para_name, input_dict, hintModel)
           IN  /\ hintModel' = r.model
               /\ call' = [op |-> "_set_parameter_hint", para_name |-> para_name,
                           input_dict |-> input_dict, pre |-> hintModel,
                           out |-> IF r.ok THEN "ok" ELSE "ValueError"]
        /\ UNCHANGED <<heap, dicts, ctl, ms>>

NextHint == SetParameterHint

SpecHint == InitHint /\ [][NextHint]_vars

\* --------------------------------------------- the aggregator on its own

KLines == <<"ka1", "ka2", "kb1", "kb2">>
AreaFields == <<"area", "ratio", "ratio_adjust">>

\* The fitted value of a line's parameter in fit number profile.
FittedValue(profile, li, fi) ==
    CASE fi = 1 -> QInt(10 * profile + li)
      [] fi = 2 -> Q(li + profile, 2)
      [] fi = 3 -> QInt(1 + ((profile + li) % 2))

\* fit_results.values of a fit whose model held the lines `lines` of the
\* K-series element sym (each with its area, ratio and ratio_adjust), the
\* la1 line of Ga and the energy offset.
AreaFit(sym, lines, profile) ==
    LET knames == {sym \o "_" \o KLines[li] \o "_" \o AreaFields[fi] :
                      li \in lines, fi \in 1..3}
        other  == {"Ga_la1_area", "Ga_la1_ratio", "Ga_la1_ratio_adjust", "e_offset"}
    IN  [n \in knames \cup other |->
            IF n \in knames
            THEN LET c == CHOOSE c \in lines \X (1..3) :
                              n = sym \o "_" \o KLines[c[1]] \o "_" \o AreaFields[c[2]]
                 IN  FittedValue(profile, c[1], c[2])
            ELSE QInt(7)]

InitArea ==
    /\ heap = <<>>
    /\ dicts = <<>>
    /\ hintModel = NewModel("")
    /\ InitCommon

\* get_sum_area(element_name, result_val)
GetSumArea ==
    \E element_name \in ElementNames \cup {"Ga"}, sym \in {"Fe", "Ga"},
       lines \in SUBSET (1..4), profile \in 1..MaxProfile :
        /\ call.op = "none"
        /\ LET values == AreaFit(sym, lines, profile)
           IN  call' = [op |-> "get_sum_area", element_name |-> element_name,
                        values |-> values, ret |-> get_sum_area(element_name, values)]
        /\ UNCHANGED <<heap, dicts, ctl, ms, hintModel, steps>>

NextArea == GetSumArea

SpecArea == InitArea /\ [][NextArea]_vars

\* ------------------------------------------------- set_range on its own

Min(a, b) == IF a < b THEN a ELSE b

\* zip(x1, y1): the pairs, as many as the shorter argument has.
zip(x1, y1) == [i \in 1..Min(Len(x1), Len(y1)) |-> <<x1[i], y1[i]>>]

\* item[0] > lowv and item[0] < highv
in_window_low_inclusive(item, lowv, highv) ==
    ~QLt(QInt(item[1]), lowv) /\ QLt(QInt(item[1]), highv)

in_window_low_only(item, lowv, highv) == QLt(lowv, QInt(item[1]))

in_window(item, lowv, highv) == QLt(lowv, QInt(item[1])) /\ QLt(QInt(item[1]), highv)

\* [item[k] for item in all if item[0] > lowv and item[0] < highv]
RECURSIVE select(_, _, _, _)
select(all, k, lowv, highv) ==
    IF all = <<>> THEN <<>>
    ELSE (IF in_window(Head(all), lowv, highv) THEN <<Head(all)[k]>> ELSE <<>>)
         \o select(Tail(all), k, lowv, highv)

\* set_range(parameter, x1, y1): the pair of arrays <<x0, y0>>.
set_range(parameter, x1, y1) ==
    LET lowv  == QMul(parameter["non_fitting_values"]["energy_bound_low"], QInt(100))
        highv == QMul(parameter["non_fitting_values"]["energy_bound_high"], QInt(100))
    IN  <<select(zip(x1, y1), 1, lowv, highv), select(zip(x1, y1), 2, lowv, highv)>>

\* Channel positions and energy bounds (keV) handed to set_range.
ChannelValues == {150, 200, 201, 1000, 1100}

EnergyBounds == {<<QInt(2), QInt(10)>>, <<Q(3, 2), QInt(10)>>, <<QInt(2), QInt(2)>>}

Channels == UNION {[1..n -> ChannelValues] : n \in 0..MaxChannels}

\* The counts of the channels: the i-th count is 10 * i + 1.
Counts(n) == [i \in 1..n |-> 10 * i + 1]

InitRange ==
    /\ heap = <<>>
    /\ dicts = <<>>
    /\ hintModel = NewModel("")
    /\ InitCommon

\* set_range(parameter, x1, y1)
SetRange ==
    \E b \in EnergyBounds, x1 \in Channels, extra \in {0, 1} :
        /\ call.op = "none"
        /\ LET parameter == [non_fitting_values |->
                                [energy_bound_low |-> b[1], energy_bound_high |-> b[2]]]
               y1 == Counts(Len(x1) + extra)
           IN  call' = [op |-> "set_range", parameter |-> parameter, x1 |-> x1, y1 |-> y1,
                        ret |-> set_range(parameter, x1, y1)]
        /\ UNCHANGED <<heap, dicts, ctl, ms, hintModel, steps>>

NextRange == SetRange

SpecRange == InitRange /\ [][NextRange]_vars

\* ------------------------------------------------- the linear basis

\* e_model.eval(x=x, params=p): one value per channel, standing for the
\* model's curve at that channel.
model_eval(model, x) == [i \in 1..Len(x) |-> [model |-> model, x |-> x[i]]]

\* np.array(matv).transpose(): rows are channels, columns the evaluated models.
transpose(matv, n) == [r \in 1..n |-> [c \in 1..Len(matv) |-> matv[c][r]]]

\* The loop body of get_linear_model for element name, r being the result of
\* MS.setElementModel(name): a None model adds nothing.
linear_step_keeps_inactive(acc, name, r, x) ==
    IF r.out # "ok" THEN [acc EXCEPT !.out = r.out]
    ELSE [out |-> "ok", e_select |-> Append(acc.e_select, name),
          matv |-> Append(acc.matv, model_eval(r.model, x))]

linear_step(acc, name, r, x) ==
    IF r.out # "ok" THEN [acc EXCEPT !.out = r.out]
    ELSE IF r.model = <<>> THEN acc
    ELSE [out |-> "ok", e_select |-> Append(acc.e_select, name),
          matv |-> Append(acc.matv, model_eval(r.model, x))]

\* for i in range(len(elist)): acc = [out, e_select, matv]
RECURSIVE linear_loop(_, _, _, _, _)
linear_loop(self, names, parameter, x, acc) ==
    IF names = <<>> \/ acc.out # "ok" THEN acc
    ELSE linear_loop(self, Tail(names), parameter, x,
                     linear_step(acc, Head(names),
                                 setElementModel(self, Head(names), parameter), x))

\* The Compton and Elastic columns are appended, then the matrix is transposed.
linear_finish(acc, self, x) ==
    IF acc.out # "ok" THEN [out |-> acc.out]
    ELSE [out |-> "ok", e_select |-> acc.e_select,
          matv |-> transpose(acc.matv \o <<model_eval(self.compton, x),
                                           model_eval(self.elastic, x)>>, Len(x))]

\* get_linear_model after MS = ModelSpectrum(param_dict), init being the
\* outcome of the construction; MS.element_list raises when it was never set.
linear_from(init, x) ==
    IF init.out # "ok" THEN [out |-> init.out]
    ELSE IF ~init.self.has_element_list THEN [out |-> "AttributeError"]
    ELSE linear_finish(
            linear_loop(init.self, init.self.element_list,
                        View(init.heap, init.dicts, init.self.parameter), x,
                        [out |-> "ok", e_select |-> <<>>, matv |-> <<>>]),
            init.self, x)

\* get_linear_model(x, param_dict): [out, e_select, matv]
get_linear_model(h, ds, d, x) == linear_from(ModelSpectrum_init(h, ds, d), x)

\* The energy axes handed to get_linear_model.
LinearAxes == {<<100>>, <<100, 200>>}

\* get_linear_model(x, table); the ModelSpectrum it builds is local to the call.
GetLinearModel ==
    \E d \in DOMAIN dicts, x \in LinearAxes :
        /\ Step
        /\ call' = [op |-> "get_linear_model", d |-> d, x |-> x,
                    ret |-> get_linear_model(heap, dicts, d, x)]
        /\ UNCHANGED <<heap, dicts, ctl, ms, hintModel>>

NextLinear ==
    \/ SetParameterBound
    \/ UpdateParameterDict
    \/ GetLinearModel

SpecLinear == Init /\ [][NextLinear]_vars

\* ------------------------------------------- element_list parsing on its own

\* The element_list string a caller writes for a list of names: the names
\* joined by one separator.
RECURSIVE join(_, _)
join(names, sep) ==
    IF Len(names) = 1 THEN names[1] ELSE names[1] \o sep \o join(Tail(names), sep)

ParseNames == UNION {[1..n -> {"Fe", "Ga_L", "Cu", "Pt_M"}] : n \in 1..MaxNames}

Separators == {",", ", ", ",  ", " ", "  "}

InitParse ==
    /\ heap = <<>>
    /\ dicts = <<>>
    /\ hintModel = NewModel("")
    /\ InitCommon

\* _config: self.element_list from non_fit['element_list']
ConfigElementList ==
    \E names \in ParseNames, sep \in Separators :
        /\ call.op = "none"
        /\ call' = [op |-> "_config", names |-> names, sep |-> sep,
                    element_list |-> join(names, sep),
                    ret |-> parse_element_list(join(names, sep))]
        /\ UNCHANGED <<heap, dicts, ctl, ms, hintModel, steps>>

NextParse == ConfigElementList

SpecParse == InitParse /\ [][NextParse]_vars

\* ------------------------------------ the controller with any override string

\* Override strings a caller may pass: set_val stores them as they are.
OverrideStrings == {"lohi", "free"}

\* The keyword arguments of set_val, in the order the dict iteration yields
\* them: one property with any override string, or a call that also carries
\* a key outside pos/width/area/ratio, in either iteration order.
OverrideKws ==
    {<< <<k, option>> >> : k \in ValidProps, option \in OverrideStrings}
    \cup {<< <<"height", "lohi">> >>,
          << <<"area", "lohi">>, <<"height", "lohi">> >>,
          << <<"height", "lohi">>, <<"area", "lohi">> >>}

\* The element lists: K-series, L-series, and names set_val has no branch for.
OverrideElements == {<<"Fe">>, <<"Ga_L">>, <<"Pt_M", "Xx">>}

\* controller.set_val(element_list, **kws) with any override string.
\* pre_refs records the entry objects the table held before the call.
SetValOverride ==
    \E element_list \in OverrideElements, kws \in OverrideKws :
        /\ Step
        /\ ctl # <<>>
        /\ LET r == set_val([heap |-> heap, dicts |-> dicts], ctl[1], element_list, kws)
           IN  /\ heap' = r.st.heap
               /\ dicts' = r.st.dicts
               /\ call' = [op |-> "set_val", element_list |-> element_list, kws |-> kws,
                           pre |-> View(heap, dicts, ctl[1].new_parameter),
                           pre_refs |-> dicts[ctl[1].new_parameter],
                           out |-> IF r.ok THEN "ok" ELSE "ValueError"]
        /\ UNCHANGED <<ctl, ms, hintModel>>

NextBound ==
    \/ SetParameterBound
    \/ UpdateParameterDict
    \/ NewElementController
    \/ SetValOverride

SpecBound == Init /\ [][NextBound]_vars

\* ------------------------------ the builder and the aggregator, one after the other

\* The parameter names of a built element model (self.mod.make_params() in
\* model_fit): each line model's prefix followed by the names of its hints.
make_params_names(model) ==
    UNION {{model[i].prefix \o n : n \in DOMAIN model[i].hints} : i \in DOMAIN model}

\* The hint behind a full parameter name.
param_hint(model, name) ==
    LET i == CHOOSE i \in DOMAIN model : StartsWith(name, model[i].prefix)
    IN  model[i].hints[HintName(model[i], name)]

\* The value of a parameter in a fit that leaves every parameter where it
\* started: its hint's value, or the value of the parameter its expression
\* names when that parameter belongs to the model.
param_value(model, name) ==
    LET hint == param_hint(model, name)
    IN  IF "expr" \in DOMAIN hint /\ hint.expr \in make_params_names(model)
        THEN param_hint(model, hint.expr).value
        ELSE hint.value

\* result.values of model_fit for a built element model: exactly the
\* parameters of that model.
fit_values(model) == [name \in make_params_names(model) |-> param_value(model, name)]

\* The K-series names handed to setElementModel and then to get_sum_area.
KSeriesNames == {"Fe", "Cu", "Na"}

\* r is the result of setElementModel(ename); when it returned a model the
\* model is fitted and get_sum_area(ename, result) is called.
sum_of_built(ename, r) ==
    IF r.out = "ok" /\ r.model # <<>>
    THEN [op |-> "fit_sum_area", built |-> TRUE, element_name |-> ename,
          model |-> r.model, values |-> fit_values(r.model),
          ret |-> get_sum_area(ename, fit_values(r.model))]
    ELSE [op |-> "fit_sum_area", built |-> FALSE, element_name |-> ename, out |-> r.out]

\* instance.setElementModel(ename), a fit of the returned model, and
\* get_sum_area(ename, result).
FitAndSumArea ==
    \E ename \in KSeriesNames :
        /\ Step
        /\ ms # <<>>
        /\ call' = sum_of_built(ename,
                                setElementModel(ms[1].self, ename,
                                                View(heap, dicts, ms[1].self.parameter)))
        /\ UNCHANGED <<heap, dicts, ctl, ms, hintModel>>

NextAgree ==
    \/ SetParameterBound
    \/ UpdateParameterDict
    \/ NewModelSpectrum
    \/ FitAndSumArea

SpecAgree == Init /\ [][NextAgree]_vars

\* ======================================================================
\* The claims
\* ======================================================================

\* The content of the table a call worked on, after the call.
Post(d) == View(heap, dicts, d)

\* The fields of entry b equal those of entry a except for the fields in fs.
SameExcept(a, b, fs) ==
    /\ DOMAIN a = DOMAIN b
    /\ \A f \in (DOMAIN a) \ fs : a[f] = b[f]

\* C1: _set_parameter_hint passes, for bound_type none: value and vary=True
\* and no bounds; fixed: value and vary=False; lohi: vary=True with min and
\* max of the spec; lo: vary=True with min and no max; hi: vary=True with the
\* lower bound set to the spec's max and no upper bound.  The hint stored
\* for the parameter is the earlier hint with exactly these keywords
\* overwritten, and no other hint changes.  Any other bound_type ends in
\* ValueError with the model's hints as they were.
C1_HintMapping ==
    call.op = "_set_parameter_hint" =>
        LET s   == call.input_dict
            n   == HintName(call.pre, call.para_name)
            old == IF n \in DOMAIN call.pre.hints THEN call.pre.hints[n] ELSE <<>>
            new == hintModel.hints
            Sets(kw) ==
                /\ call.out = "ok"
                /\ hintModel.prefix = call.pre.prefix
                /\ DOMAIN new = (DOMAIN call.pre.hints) \cup {n}
                /\ \A x \in DOMAIN call.pre.hints : x # n => new[x] = call.pre.hints[x]
                /\ DOMAIN new[n] = (DOMAIN old) \cup (DOMAIN kw)
                /\ \A x \in DOMAIN kw : new[n][x] = kw[x]
                /\ \A x \in (DOMAIN old) \ (DOMAIN kw) : new[n][x] = old[x]
        IN  CASE s.bound_type = "none"  -> Sets([value |-> s.value, vary |-> TRUE])
              [] s.bound_type = "fixed" -> Sets([value |-> s.value, vary |-> FALSE])
              [] s.bound_type = "lohi"  -> Sets([value |-> s.value, vary |-> TRUE,
                                                 min |-> s.min, max |-> s.max])
              [] s.bound_type = "lo"    -> Sets([value |-> s.value, vary |-> TRUE, min |-> s.min])
              [] s.bound_type = "hi"    -> Sets([value |-> s.value, vary |-> TRUE, min |-> s.max])
              [] OTHER -> call.out = "ValueError" /\ hintModel = call.pre

\* C1 witness: a 'hi' spec was translated on a model with no earlier hint
\* for the name, and the hint's lower bound is the spec's max.
C1_Witness ==
    /\ call.op = "_set_parameter_hint"
    /\ call.input_dict.bound_type = "hi"
    /\ call.pre.hints = <<>>
    /\ call.out = "ok"
    /\ HintOf(hintModel, call.para_name) =
           [value |-> call.input_dict.value, vary |-> TRUE, min |-> call.input_dict.max]

\* C2: set_parameter_bound(table, option) sets the bound_type of every entry
\* other than non_fitting_values to the entry's own value under option,
\* leaves non_fitting_values as it was, changes no other field and adds or
\* removes no key.
C2_SetParameterBoundFrame ==
    call.op = "set_parameter_bound" =>
        LET pre == call.pre
            post == Post(call.d)
        IN  /\ DOMAIN post = DOMAIN pre
            /\ \A k \in DOMAIN pre :
                  IF k = "non_fitting_values" THEN post[k] = pre[k]
                  ELSE /\ post[k].bound_type = pre[k][call.option]
                       /\ SameExcept(pre[k], post[k], {"bound_type"})

\* C2 witness: a call changed the bound_type of an entry and left another
\* entry's bound_type as it was.
C2_Witness ==
    /\ call.op = "set_parameter_bound"
    /\ \E k \in DOMAIN call.pre :
          /\ k # "non_fitting_values"
          /\ Post(call.d)[k].bound_type # call.pre[k].bound_type
    /\ \E k \in DOMAIN call.pre :
          /\ k # "non_fitting_values"
          /\ Post(call.d)[k].bound_type = call.pre[k].bound_type

\* C3: update_parameter_dict(table, fit) overwrites 'value' with the fitted
\* value for exactly the names in both the table and the fit; every other
\* entry and every other field is unchanged, and no key is added or removed.
C3_UpdateParameterDictFrame ==
    call.op = "update_parameter_dict" =>
        LET pre == call.pre
            post == Post(call.d)
        IN  /\ DOMAIN post = DOMAIN pre
            /\ \A k \in DOMAIN pre :
                  IF k \in DOMAIN call.values
                  THEN /\ post[k].value = call.values[k]
                       /\ SameExcept(pre[k], post[k], {"value"})
                  ELSE post[k] = pre[k]

\* C3 witness: a call overwrote a value, with a fitted name the table does
\* not hold and a table entry the fit does not hold.
C3_Witness ==
    /\ call.op = "update_parameter_dict"
    /\ \E k \in (DOMAIN call.pre) \cap (DOMAIN call.values) :
          Post(call.d)[k].value # call.pre[k].value
    /\ (DOMAIN call.values) \ (DOMAIN call.pre) # {}
    /\ (DOMAIN call.pre) \ (DOMAIN call.values) # {}

\* A set_val([el], area=opt) call for one K-series element.
IsKAreaCall ==
    /\ call.op = "set_val"
    /\ Len(call.element_list) = 1
    /\ call.element_list[1] \in k_line
    /\ Len(call.kws) = 1
    /\ call.kws[1][1] = "area"

\* C4 as stated: set_val([el], area=opt) for a K-series el changes only the
\* adjust_element field of '<el>_ka1_area', which becomes opt; the other
\* fields of that entry keep their earlier values and no other entry is
\* created or changed.
C4_OnlyAdjustElementChanges ==
    (IsKAreaCall /\ call.kws[1][2] # "") =>
        LET key == call.element_list[1] \o "_ka1_area"
            post == Post(ctl[1].new_parameter)
        IN  /\ DOMAIN post = (DOMAIN call.pre) \cup {key}
            /\ \A k \in (DOMAIN call.pre) \ {key} : post[k] = call.pre[k]
            /\ post[key].adjust_element = call.kws[1][2]
            /\ key \in DOMAIN call.pre => SameExcept(call.pre[key], post[key], {"adjust_element"})

\* C4 amended: set_val([el], area=opt) for a K-series el replaces (or
\* creates) the entry '<el>_ka1_area' by a copy of the area template
\* (bound_type none, min 0, max 1e9, value 1000, free_more none,
\* e_calibration fixed, linear none) whose adjust_element is opt when opt is
\* a non-empty string and the template's 'fixed' otherwise; the entry's
\* earlier field values are discarded; no other entry is created or changed.
C4_AreaEntryRegenerated ==
    IsKAreaCall =>
        LET key == call.element_list[1] \o "_ka1_area"
            opt == call.kws[1][2]
            post == Post(ctl[1].new_parameter)
        IN  /\ call.out = "ok"
            /\ DOMAIN post = (DOMAIN call.pre) \cup {key}
            /\ \A k \in (DOMAIN call.pre) \ {key} : post[k] = call.pre[k]
            /\ post[key] =
                  [bound_type |-> "none", min |-> QInt(0), max |-> QInt(1000000000),
                   value |-> QInt(1000), free_more |-> "none",
                   adjust_element |-> IF opt = "" THEN "fixed" ELSE opt,
                   e_calibration |-> "fixed", linear |-> "none"]

\* C4 witness: the call found an '<el>_ka1_area' entry whose value was not
\* the template's and left the template's value in it.
C4_Witness ==
    /\ IsKAreaCall
    /\ call.kws[1][2] = "lohi"
    /\ LET key == call.element_list[1] \o "_ka1_area"
       IN  /\ key \in DOMAIN call.pre
           /\ call.pre[key].value # QInt(1000)
           /\ Post(ctl[1].new_parameter)[key].value = QInt(1000)
           /\ Post(ctl[1].new_parameter)[key].adjust_element = "lohi"

\* C5: after a controller was constructed from table T and only set_val
\* calls were made since, T has the keys and the field values it had when
\* the controller was constructed.
C5_CallerTableUntouched ==
    (ctl # <<>> /\ ctl[1].set_val_only) =>
        View(heap, dicts, ctl[1].src) = ctl[1].src_at_init

\* C5 witness: a set_val call changed the controller's table while only
\* set_val calls were made since construction.
C5_Witness ==
    /\ ctl # <<>>
    /\ ctl[1].set_val_only
    /\ call.op = "set_val"
    /\ call.out = "ok"
    /\ Post(ctl[1].new_parameter) # call.pre
    /\ Post(ctl[1].new_parameter) # ctl[1].src_at_init

\* C6 as stated: a setElementModel or model_spectrum call uses the table
\* content as it was when the ModelSpectrum was constructed, whatever was
\* done to the source table since.
C6_UsesTableAtConstruction ==
    /\ call.op = "setElementModel" =>
          LET r == setElementModel(ms[1].self, call.ename, ms[1].src_at_init)
          IN  call.out = r.out /\ call.model = r.model
    /\ call.op = "model_spectrum" =>
          LET r == model_spectrum(ms[1].self, ms[1].src_at_init)
          IN  call.out = r.out /\ ms[1].self.mod = r.mod

\* C6 amended: a ModelSpectrum keeps a reference to the caller's table and
\* makes no copy.  The incident energy and the presence of element_list are
\* those found at construction, while setElementModel reads the table as it
\* is at the time of the call: for a K-series element that is built, the
\* area hint of the ka1 line has the value of the source table's present
\* '<el>_ka1_area' entry, or 1e5 when the source table has no such key.
C6_UsesCurrentTable ==
    ms # <<>> =>
        LET cur == View(heap, dicts, ms[1].src)
            at0 == ms[1].src_at_init
        IN  /\ ms[1].self.incident_energy = at0["coherent_sct_energy"].value
            /\ ms[1].self.has_element_list = ("element_list" \in DOMAIN at0["non_fitting_values"])
            /\ (call.op = "setElementModel" /\ call.out = "ok" /\ call.model # <<>>
                /\ call.ename \in k_line) =>
                  LET key == call.ename \o "_ka1_area"
                  IN  HintOf(call.model[1], "area").value =
                         IF key \in DOMAIN cur THEN cur[key].value ELSE QInt(100000)

\* C6 witness: a K-series element was built after the value of its
\* '<el>_ka1_area' entry in the source table was changed.
C6_Witness ==
    /\ ms # <<>>
    /\ call.op = "setElementModel"
    /\ call.out = "ok"
    /\ call.model # <<>>
    /\ call.ename \in k_line
    /\ LET key == call.ename \o "_ka1_area"
           cur == View(heap, dicts, ms[1].src)
       IN  /\ key \in DOMAIN cur
           /\ key \in DOMAIN ms[1].src_at_init
           /\ cur[key].value # ms[1].src_at_init[key].value
           /\ HintOf(call.model[1], "area").value = cur[key].value

\* C7: with 'element_list' absent from non_fitting_values, constructing a
\* ModelSpectrum does not fail, and a following model_spectrum() completes
\* without error with the composite of the Compton and Elastic models only.
C7_NoElementListIsNonFatal ==
    /\ (call.op = "ModelSpectrum"
        /\ "element_list" \notin DOMAIN Post(call.d)["non_fitting_values"]) =>
          call.out = "ok"
    /\ (call.op = "model_spectrum" /\ ~ms[1].self.has_element_list) =>
          /\ call.out = "ok"
          /\ ms[1].self.mod = <<ms[1].self.compton, ms[1].self.elastic>>

\* The principal line of the element has zero cross-section at the energy.
PrincipalInactive(ename, energy) ==
    \/ ename \in k_line /\ cs(ename, energy, "ka1") = 0
    \/ ename \in l_line /\ cs(DropLast(ename, 2), energy, "la1") = 0
    \/ ename \in m_line /\ cs(DropLast(ename, 2), energy, "ma1") = 0

\* C8: an element whose principal line has zero cross-section is non-fatal:
\* setElementModel returns no model without raising, and model_spectrum()
\* over an element_list holding such an element completes without error
\* with the Compton and Elastic models in front.
C8_InactiveElementIsNonFatal ==
    /\ (call.op = "setElementModel"
        /\ PrincipalInactive(call.ename, ms[1].self.incident_energy)) =>
          call.out = "ok" /\ call.model = <<>>
    /\ (call.op = "model_spectrum" /\ ms[1].self.has_element_list
        /\ \E i \in 1..Len(ms[1].self.element_list) :
              PrincipalInactive(ms[1].self.element_list[i], ms[1].self.incident_energy)) =>
          /\ call.out = "ok"
          /\ SubSeq(ms[1].self.mod, 1, 2) = <<ms[1].self.compton, ms[1].self.elastic>>

\* C9: for a K-series element and a fit result holding area, ratio and
\* ratio_adjust of ka1, ka2 and kb1, get_sum_area returns the sum of
\* area*ratio*ratio_adjust over the three lines, plus the product for kb2
\* exactly when '<el>_kb2_area' is in the fit result.
C9_SumOfLineAreas ==
    (call.op = "get_sum_area" /\ call.element_name \in k_line
     /\ \A l \in {"ka1", "ka2", "kb1"}, f \in {"area", "ratio", "ratio_adjust"} :
            (call.element_name \o "_" \o l \o "_" \o f) \in DOMAIN call.values) =>
        LET v(l, f) == call.values[call.element_name \o "_" \o l \o "_" \o f]
            prod(l) == QMul(QMul(v(l, "area"), v(l, "ratio")), v(l, "ratio_adjust"))
            three == QAdd(QAdd(prod("ka1"), prod("ka2")), prod("kb1"))
        IN  /\ call.ret.out = "ok"
            /\ IF (call.element_name \o "_kb2_area") \in DOMAIN call.values
               THEN QEq(call.ret.val, QAdd(three, prod("kb2")))
               ELSE QEq(call.ret.val, three)

\* C9 witness: a K-series total was returned for a fit result with ka1, ka2
\* and kb1 and no kb2.
C9_Witness ==
    /\ call.op = "get_sum_area"
    /\ call.element_name = "Fe"
    /\ "Fe_ka1_area" \in DOMAIN call.values
    /\ "Fe_ka2_area" \in DOMAIN call.values
    /\ "Fe_kb1_area" \in DOMAIN call.values
    /\ "Fe_kb2_area" \notin DOMAIN call.values
    /\ call.ret.out = "ok"
    /\ ~QIsZero(call.ret.val)

\* C10: get_sum_area with an element name outside the K-series list never
\* returns a value: it ends in an error for every fit result.
C10_NonKSeriesIsAnError ==
    (call.op = "get_sum_area" /\ call.element_name \notin k_line) =>
        call.ret.out # "ok" /\ "val" \notin DOMAIN call.ret

\* C10 witness: the aggregator was called with an L-series name and a fit
\* result holding that element's la1 line, and ended in an error.
C10_Witness ==
    /\ call.op = "get_sum_area"
    /\ call.element_name = "Ga_L"
    /\ "Ga_la1_area" \in DOMAIN call.values
    /\ call.ret.out = "UnboundLocalError"

\* The input positions set_range keeps: strictly inside the window.
KeptPositions ==
    {i \in 1..Min(Len(call.x1), Len(call.y1)) :
        /\ QLt(QMul(call.parameter.non_fitting_values.energy_bound_low, QInt(100)),
               QInt(call.x1[i]))
        /\ QLt(QInt(call.x1[i]),
               QMul(call.parameter.non_fitting_values.energy_bound_high, QInt(100)))}

\* The k-th kept position, in input order.
KeptAt(k) == CHOOSE i \in KeptPositions : Cardinality({j \in KeptPositions : j <= i}) = k

\* C11: set_range returns two arrays of equal length holding, in input
\* order, exactly the (x, y) pairs with low*100 < x < high*100 (both strict).
C11_WindowIsStrictSubsequence ==
    call.op = "set_range" =>
        /\ Len(call.ret[1]) = Cardinality(KeptPositions)
        /\ Len(call.ret[2]) = Len(call.ret[1])
        /\ \A k \in 1..Len(call.ret[1]) :
              /\ call.ret[1][k] = call.x1[KeptAt(k)]
              /\ call.ret[2][k] = call.y1[KeptAt(k)]

\* C11 witness: a call kept the first and third of three channels and
\* dropped the second, which sits on the upper bound.
C11_Witness ==
    /\ call.op = "set_range"
    /\ call.x1 = <<201, 1000, 201>>
    /\ call.parameter.non_fitting_values.energy_bound_high = QInt(10)
    /\ call.ret = <<(<<201, 201>>), (<<11, 31>>)>>

\* The call of the worked example: bounds 2.0 and 10.0, x = [150, 200, 1100].
IsExampleCall ==
    /\ call.op = "set_range"
    /\ call.parameter.non_fitting_values = [energy_bound_low |-> QInt(2),
                                            energy_bound_high |-> QInt(10)]
    /\ call.x1 = <<150, 200, 1100>>

\* C12 as stated: the example call keeps exactly the channel x = 200 and its y.
C12_ExampleKeeps200 ==
    IsExampleCall => call.ret = <<(<<200>>), (<<call.y1[2]>>)>>

\* C12: the example call keeps no channel: 150 and 1100 lie outside the
\* window and 200 equals energy_bound_low*100, which the strict comparison drops.
C12_ExampleKeepsNothing ==
    IsExampleCall => call.ret = <<(<<>>), (<<>>)>>

\* C12 witness: the example call was made and returned.
C12_Witness ==
    /\ IsExampleCall
    /\ Len(call.y1) = 3
    /\ Len(call.ret[1]) = 0

\* The ModelSpectrum get_linear_model builds from the table of the last call
\* (the call leaves the table as it was).
LinearMS == ModelSpectrum_init(heap, dicts, call.d).self

\* Whether setElementModel produces a model for ename on that instance.
LinearBuilt(ename) ==
    setElementModel(LinearMS, ename, View(heap, dicts, call.d)).model # <<>>

\* The positions of element_list whose element produced a model.
BuiltPositions == {i \in 1..Len(LinearMS.element_list) : LinearBuilt(LinearMS.element_list[i])}

\* The k-th of them, in element_list order.
BuiltAt(k) == CHOOSE i \in BuiltPositions : Cardinality({j \in BuiltPositions : j <= i}) = k

\* C13: get_linear_model returns the names, in element_list order, of exactly
\* the elements setElementModel built a model for, and a matrix with len(x)
\* rows and len(names)+2 columns: column i is the evaluation of the model of
\* names[i], then the Compton column, then the Elastic column.
C13_LinearBasisShape ==
    (call.op = "get_linear_model" /\ call.ret.out = "ok") =>
        LET names == call.ret.e_select
            matv  == call.ret.matv
            n     == Len(names)
        IN  /\ n = Cardinality(BuiltPositions)
            /\ \A k \in 1..n : names[k] = LinearMS.element_list[BuiltAt(k)]
            /\ Len(matv) = Len(call.x)
            /\ \A r \in 1..Len(matv) :
                  /\ Len(matv[r]) = n + 2
                  /\ \A k \in 1..n :
                        matv[r][k] =
                            [model |-> setElementModel(LinearMS, names[k],
                                                       View(heap, dicts, call.d)).model,
                             x |-> call.x[r]]
                  /\ matv[r][n + 1] = [model |-> LinearMS.compton, x |-> call.x[r]]
                  /\ matv[r][n + 2] = [model |-> LinearMS.elastic, x |-> call.x[r]]

\* C13 witness: of the two configured elements one is inactive at the
\* incident energy; the names hold the other only and the matrix has two rows
\* of three columns.
C13_Witness ==
    /\ call.op = "get_linear_model"
    /\ call.ret.out = "ok"
    /\ call.x = <<100, 200>>
    /\ LinearMS.element_list = <<"Fe", "Cu">>
    /\ call.ret.e_select = <<"Fe">>
    /\ Len(call.ret.matv) = 2
    /\ Len(call.ret.matv[1]) = 3

\* Two active elements: the matrix has four columns.
C13_TwoActive ==
    /\ call.op = "get_linear_model"
    /\ call.ret.out = "ok"
    /\ call.ret.e_select = <<"Fe", "Na">>
    /\ Len(call.ret.matv[1]) = 4

\* The hints of model tie every name of names to the Compton parameter of the
\* same name, starting from its value, and give it no setting of its own.
TiedToCompton(model, names, compton) ==
    \A i \in 1..Len(names) :
        /\ names[i] \in DOMAIN model.hints
        /\ DOMAIN model.hints[names[i]] = {"value", "expr"}
        /\ model.hints[names[i]].expr = names[i]
        /\ model.hints[names[i]].value = compton.hints[names[i]].value

\* C14: the Elastic model and every emission-line model a ModelSpectrum builds
\* tie e_offset, e_linear, e_quadratic, fwhm_offset and fwhm_fanoprime (the
\* Elastic model coherent_sct_energy too) by expression to the un-prefixed
\* Compton parameter and start from its value, whatever the table holds.
C14_GlobalCalibrationShared ==
    ms # <<>> =>
        LET self == ms[1].self
        IN  /\ TiedToCompton(self.elastic, global_names \o <<"coherent_sct_energy">>,
                             self.compton)
            /\ (call.op = "setElementModel" /\ call.out = "ok") =>
                  \A i \in 1..Len(call.model) :
                      TiedToCompton(call.model[i], global_names, self.compton)
            /\ self.has_mod =>
                  \A i \in 3..Len(self.mod) :
                      TiedToCompton(self.mod[i], global_names, self.compton)

\* C14 witness: a composite was built on a table that holds an 'e_offset'
\* entry, with an L-series and an M-series line model in it.
C14_Witness ==
    /\ ms # <<>>
    /\ call.op = "model_spectrum"
    /\ call.out = "ok"
    /\ "e_offset" \in DOMAIN View(heap, dicts, ms[1].src)
    /\ \E i, j \in 3..Len(ms[1].self.mod) :
          /\ ms[1].self.mod[i].prefix = "Ga_la1_"
          /\ ms[1].self.mod[j].prefix = "Pt_ma1_"

\* C15: for names joined by ',' (with or without a following blank) or by
\* blanks, the parsed element_list is the list of names, in order.
C15_ParseRoundTrip ==
    call.op = "_config" => call.ret = call.names

\* With a comma always followed by a blank, or with blanks only, the names
\* come back (the part of C15 the code does satisfy).
C15_ParseWithBlankAfterComma ==
    (call.op = "_config" /\ call.sep # ",") => call.ret = call.names

\* C16: after any sequence of set_val, set_parameter_bound and
\* update_parameter_dict calls, every entry other than 'non_fitting_values'
\* of every table has a bound_type among none, fixed, lohi, lo, hi.
C16_BoundTypeStaysRecognised ==
    \A d \in DOMAIN dicts : \A k \in DOMAIN dicts[d] :
        k # "non_fitting_values" => heap[dicts[d][k]].bound_type \in BoundTypes

\* C17: a set_val call whose keywords hold a key outside pos, width, area,
\* ratio ends in an error and leaves the controller's table as it was.
C17_BadKeyLeavesTableUntouched ==
    (call.op = "set_val" /\ \E i \in 1..Len(call.kws) : call.kws[i][1] \notin ValidProps) =>
        /\ call.out = "ValueError"
        /\ Post(ctl[1].new_parameter) = call.pre

\* The keys set_val stored an entry under: new keys and keys that now refer
\* to another entry object.
Written ==
    LET now == dicts[ctl[1].new_parameter]
    IN  {k \in DOMAIN now : k \notin DOMAIN call.pre_refs \/ now[k] # call.pre_refs[k]}

\* The keys an L-series element may be written under for property prop: one
\* per sub-line of the short L list whose compound name is in the list
\* derived at construction, la1 left out for the ratio.
LKeysAllowed(prop, item) ==
    {prop \o "-" \o DropLast(item, 2) \o "-" \o l_list[i] : i \in
        {i \in 1..Len(l_list) :
            /\ InSeq(DropLast(item, 2) \o "_" \o l_list[i], ctl[1].element_name)
            /\ ~(prop = "ratio" /\ l_list[i] = "la1")}}

\* C18: for an L-series element set_val writes exactly the sub-lines of
\* la1..ll whose compound name is in the list derived at construction (never
\* lb4, lb5, lg3, lg4, ln; never la1 for a ratio), the others being skipped
\* without error; for an element in neither the K nor the L list it changes
\* nothing and raises nothing.
C18_LSeriesWritesOnlyListedLines ==
    (call.op = "set_val" /\ "pre_refs" \in DOMAIN call /\ Len(call.kws) = 1
     /\ call.kws[1][1] \in ValidProps) =>
        /\ call.out = "ok"
        /\ (\A i \in 1..Len(call.element_list) : call.element_list[i] \in l_line) =>
              /\ Written = UNION {LKeysAllowed(call.kws[1][1], call.element_list[i]) :
                                      i \in 1..Len(call.element_list)}
              /\ \A k \in Written : \A line \in {"lb4", "lb5", "lg3", "lg4", "ln"} :
                    ~Contains(k, line)
        /\ (\A i \in 1..Len(call.element_list) :
                call.element_list[i] \notin (k_line \cup l_line)) =>
              /\ Written = {}
              /\ Post(ctl[1].new_parameter) = call.pre

\* C18 witness: a ratio override for Ga_L on a controller that derived Ga_la1
\* and Ga_lb1 wrote the lb1 entry only.
C18_Witness ==
    /\ call.op = "set_val"
    /\ "pre_refs" \in DOMAIN call
    /\ call.out = "ok"
    /\ call.element_list = <<"Ga_L">>
    /\ call.kws[1][1] = "ratio"
    /\ InSeq("Ga_la1", ctl[1].element_name)
    /\ InSeq("Ga_lb1", ctl[1].element_name)
    /\ Written = {"ratio-Ga-lb1"}

\* The controller's table holds an entry set_val stored: it is the table N
\* a set_val call returned, no longer entry for entry the original.
ReturnedBySetVal ==
    /\ ctl # <<>>
    /\ \E k \in DOMAIN dicts[ctl[1].new_parameter] :
          \/ k \notin DOMAIN dicts[ctl[1].src]
          \/ dicts[ctl[1].new_parameter][k] # dicts[ctl[1].src][k]

\* C19: a set_parameter_bound or update_parameter_dict call on the table N
\* returned by set_val leaves every field of every entry of the original
\* table T as it was.
C19_ReturnedTableSharesNoEntry ==
    [][(/\ ReturnedBySetVal
        /\ call'.op \in {"set_parameter_bound", "update_parameter_dict"}
        /\ call'.d = ctl[1].new_parameter)
       => View(heap', dicts', ctl[1].src) = View(heap, dicts, ctl[1].src)]_vars

\* An entry unlike any default, to see whether the model builder reads a key.
ProbeEntry == Entry("lohi", QInt(777), QInt(1), QInt(999), "none", "lohi", "fixed", "none")

\* Whether setElementModel(el) on a ModelSpectrum of the controller's table
\* looks key up: the model built with ProbeEntry under key differs from the
\* model built with no entry under key.
LooksUp(el, key) ==
    LET n       == ctl[1].new_parameter
        self    == ModelSpectrum_init(heap, dicts, n).self
        tbl     == View(heap, dicts, n)
        with    == [x \in DOMAIN tbl |-> IF x = key THEN ProbeEntry ELSE tbl[x]]
        without == [x \in (DOMAIN tbl) \ {key} |-> tbl[x]]
    IN  setElementModel(self, el, with).model # setElementModel(self, el, without).model

\* C20: every key set_val writes for a K-series or L-series element is a key
\* setElementModel looks up when it builds that element's sub-lines.
C20_WrittenKeysReachTheModel ==
    (call.op = "set_val" /\ "pre_refs" \in DOMAIN call /\ call.out = "ok"
     /\ Len(call.element_list) = 1
     /\ call.element_list[1] \in (k_line \cup l_line)) =>
        \A key \in Written : LooksUp(call.element_list[1], key)

\* For a K-series element the written keys are looked up (the part of C20
\* the code does satisfy).
C20_KSeriesKeysReachTheModel ==
    (call.op = "set_val" /\ "pre_refs" \in DOMAIN call /\ call.out = "ok"
     /\ Len(call.element_list) = 1
     /\ call.element_list[1] \in k_line) =>
        \A key \in Written : LooksUp(call.element_list[1], key)

\* The area * ratio * ratio_adjust of one built line, read from the fit result.
LineProduct(values, prefix) ==
    QMul(QMul(values[prefix \o "area"], values[prefix \o "ratio"]),
         values[prefix \o "ratio_adjust"])

\* The sum of LineProduct over the lines of a built model, in the order built.
RECURSIVE BuiltSumFrom(_, _, _, _)
BuiltSumFrom(values, model, i, acc) ==
    IF i > Len(model) THEN acc
    ELSE BuiltSumFrom(values, model, i + 1, QAdd(acc, LineProduct(values, model[i].prefix)))

BuiltSum(values, model) == BuiltSumFrom(values, model, 2, LineProduct(values, model[1].prefix))

\* The line names of a built model.
BuiltLines(model) == {model[i].prefix : i \in DOMAIN model}

\* C21: for every K-series element for which setElementModel built a model,
\* get_sum_area on a fit result holding exactly that model's parameters
\* returns, without error, the sum of area * ratio * ratio_adjust over the
\* lines that were built, also when ka2 or kb1 was skipped as inactive.
C21_AggregatorAgreesWithBuilder ==
    (call.op = "fit_sum_area" /\ call.built)
        => /\ call.ret.out = "ok"
           /\ call.ret.val = BuiltSum(call.values, call.model)

\* C21, the part the code keeps: when ka1, ka2 and kb1 were all built the
\* aggregator returns the sum over the built lines, with or without kb2.
C21_AgreesWhenKb1Built ==
    (call.op = "fit_sum_area" /\ call.built
     /\ {call.element_name \o "_ka2_", call.element_name \o "_kb1_"}
            \subseteq BuiltLines(call.model))
        => /\ call.ret.out = "ok"
           /\ call.ret.val = BuiltSum(call.values, call.model)

\* C21, the case the code fails: a model was built without kb1 (sodium has
\* neither kb line) and the aggregator raises KeyError.
C21_Kb1SkippedRaises ==
    (call.op = "fit_sum_area" /\ call.built
     /\ (call.element_name \o "_kb1_") \notin BuiltLines(call.model))
        => call.ret.out = "KeyError"

\* A model built from ka1 and ka2 only was fitted and summed.
C21_SkippedCase ==
    /\ call.op = "fit_sum_area" /\ call.built
    /\ BuiltLines(call.model) = {call.element_name \o "_ka1_", call.element_name \o "_ka2_"}

\* A model with all four lines was fitted and summed.
C21_FourLineCase ==
    /\ call.op = "fit_sum_area" /\ call.built
    /\ Len(call.model) = 4
    /\ call.ret.out = "ok"

====
